---------------------------- MODULE Spec2Model ----------------------------
(***************************************************************************)
(* State-machine model of src/src/main.rs (bevy_snake).                    *)
(*                                                                         *)
(* The state is the ECS world as far as the game logic reads or writes it: *)
(* the resources WindowSize, Grid and ScoreBoard, the components Facing,   *)
(* Head(Vec<Entity>) and Position, and the queue of deferred Commands.     *)
(* One action per system; the scheduler of the Update stage is modelled by *)
(* Schedule / ApplyBuffers.  The Transform component is written by         *)
(* pos_trans_size_scale_system alone and read by no system of the program  *)
(* (only by the renderer), so it is no part of the state: that system is   *)
(* modelled by its place in the schedule.                                  *)
(*                                                                         *)
(* Scheduling.  main() adds the five systems to the same stage in two      *)
(* SystemSets, each with a FixedTimestep run criterion, and gives none of  *)
(* them a label or a before/after constraint.  A pass of the stage         *)
(* therefore runs the systems whose criterion fired, each once, in an      *)
(* order the registration does not fix; systems whose data accesses        *)
(* conflict never overlap, so a pass is a serial run in some order.  The   *)
(* model lets that order differ from pass to pass: the registration        *)
(* promises nothing stronger.  Commands are buffered and applied when the  *)
(* pass is over; a panic in a system ends the process.                     *)
(*                                                                         *)
(* Coordinates are i32 in the source.  A head is never more than two cells *)
(* outside the grid (every pass that moves it also checks it), so the      *)
(* 2^32 wrap-around is out of reach and plain integers are used.           *)
(***************************************************************************)
EXTENDS Integers, Sequences, FiniteSets, TLC

VARIABLES
    window,      \* resource WindowSize: [width, height]
    grid,        \* resource Grid: [cell_size, size: [width, height]]
    scoreboard,  \* resource ScoreBoard(u32)
    facing,      \* component Facing of the head entity
    head,        \* component Head(Vec<Entity>) of the head entity
    marker,      \* marker component (Fruit, Head, Tail) of each live entity
    position,    \* component Position, per entity that carries one
    entities,    \* number of entity ids handed out so far
    queue,       \* Commands buffered during the current pass
    pre_move,    \* the Position components as move_snake_system found them
                 \* in the current pass (empty before it has run)
    last_pressed,\* the keys change_direction_observed iterated over, in
                 \* iteration order (observation only, see SpecInput)
    pass,        \* systems whose run criterion fired for the current pass
    done,        \* systems of the current pass that have run
    status       \* "running", or the panic that ended the process

vars == <<window, grid, scoreboard, facing, head, marker, position, entities,
          queue, pre_move, last_pressed, pass, done, status>>

----------------------------------------------------------------------------
(* Bounds of the model. *)

\* The source divides the shorter window side into 20 cells; the model
\* divides it into CellsAcross cells.
CellsAcross == 2

\* The run stops when the ScoreBoard would go beyond MaxScore.
MaxScore == 2

----------------------------------------------------------------------------
(* Types. *)

Up == "Up"
Down == "Down"
Left == "Left"
Right == "Right"

FacingValues == {Up, Down, Left, Right}

\* The KeyCode values that Facing::from_key_code names, and one that it
\* does not.
KeyCodes == {"Up", "W", "K", "Left", "A", "H", "Down", "S", "J",
             "Right", "D", "L", "Space"}

None == "None"

\* The marker components.
Fruit == "Fruit"
HeadMarker == "Head"
TailMarker == "Tail"

new(x, y) == [x |-> x, y |-> y]

Size(w, h) == [width |-> w, height |-> h]

square(val) == Size(val, val)

Min(a, b) == IF a < b THEN a ELSE b

\* Entity ids in spawn order: the camera (startup), the fruit
\* (add_fruit_system), the head (add_snake_system), then tail segments.
CameraEntity == 0
FruitEntity == 1
HeadEntity == 2

----------------------------------------------------------------------------
(* Facing *)

opposite(self) ==
    CASE self = Up -> Down
      [] self = Left -> Right
      [] self = Down -> Up
      [] self = Right -> Left

is_opposite(self, other) == opposite(self) = other

from_key_code(key_code) ==
    CASE key_code \in {"Up", "W", "K"} -> Up
      [] key_code \in {"Left", "A", "H"} -> Left
      [] key_code \in {"Down", "S", "J"} -> Down
      [] key_code \in {"Right", "D", "L"} -> Right
      [] OTHER -> None

----------------------------------------------------------------------------
(* Position *)

\* in_bounds with the upper edge included.
in_bounds_inclusive(self, size) ==
    self.x >= 0 /\ self.y >= 0 /\ self.x <= size.width /\ self.y <= size.height

in_bounds(self, size) ==
    self.x >= 0 /\ self.y >= 0 /\ self.x < size.width /\ self.y < size.height

\* random with inclusive ranges (0..=width, 0..=height).
random_inclusive(size) ==
    {new(x, y) : x \in 0 .. size.width, y \in 0 .. size.height}

\* Position::random: every value the two gen_range calls can return.
random(size) ==
    {new(x, y) : x \in 0 .. (size.width - 1), y \in 0 .. (size.height - 1)}

\* eq comparing the x coordinate only.
eq_x(self, other) == self.x = other.x

\* Position's derived PartialEq: component-wise equality.
eq(self, other) == self.x = other.x /\ self.y = other.y

center(size) == new(size.width \div 2, size.height \div 2)

----------------------------------------------------------------------------
(* Startup: startup, add_fruit_system, add_snake_system. *)

\* Window sizes the primary window is started with: a square one, and a
\* wider one whose width is not a whole number of cells.
Windows == {Size(2 * CellsAcross, 2 * CellsAcross),
            Size(2 * CellsAcross + 3, 2 * CellsAcross)}

\* The Grid resource that startup derives from the window.
startup_grid(w) ==
    LET cell_size == Min(w.width, w.height) \div CellsAcross
    IN  [cell_size |-> cell_size,
         size |-> Size(w.width \div cell_size, w.height \div cell_size)]

Init ==
    /\ window \in Windows
    /\ grid = startup_grid(window)
    /\ scoreboard = 0
    /\ facing = Up
    /\ head = << >>
    /\ \E p \in random(grid.size) :
          position = (FruitEntity :> p) @@ (HeadEntity :> center(grid.size))
    /\ entities = 3
    /\ queue = << >>
    /\ marker = (FruitEntity :> Fruit) @@ (HeadEntity :> HeadMarker)
    /\ pre_move = << >>
    /\ last_pressed = << >>
    /\ pass = {}
    /\ done = {}
    /\ status = "running"

----------------------------------------------------------------------------
(* The systems. *)

change_direction == "change_direction_system"
move_snake == "move_snake_system"
collide_snake == "collide_snake_system"
eat_fruit == "eat_fruit_system"
pos_trans_size_scale == "pos_trans_size_scale_system"

\* The two SystemSets of main().
InputSet == {change_direction}
MoveSet == {move_snake, collide_snake, eat_fruit, pos_trans_size_scale}

\* A system runs when the process is alive, its run criterion fired for the
\* current pass and it has not run in this pass yet.
CanRun(system) ==
    /\ status = "running"
    /\ system \in pass
    /\ system \notin done

Ran(system) == done' = done \cup {system}

\* Query::single over the entities with marker component m.
single(m) == CHOOSE e \in DOMAIN marker : marker[e] = m

\* Keys that are held together with another one.
ChordKeys == {"W", "H", "Down", "Space"}

\* Orders in which keyboard_input.get_pressed() can yield the pressed keys:
\* no key, any one key, or two distinct chord keys in either order.
PressedOrders ==
    {<< >>} \cup {<<a>> : a \in KeyCodes}
            \cup {o \in {<<a, b>> : a \in ChordKeys, b \in ChordKeys} :
                     o[1] # o[2]}

\* The pressed keys during the movement ticks: none, one arrow key, or an
\* unmapped key before or after an arrow key.  The loop has the same
\* outcomes over these as over PressedOrders (every Facing, or no change).
PressedArrows ==
    {<< >>, <<"Up">>, <<"Left">>, <<"Down">>, <<"Right">>,
     <<"Space", "Up">>, <<"Left", "Space">>}

\* apply_keys leaving the loop at the first key that maps to a Facing.
RECURSIVE apply_keys_first(_, _)
apply_keys_first(current, codes) ==
    IF codes = << >> THEN current
    ELSE LET val == from_key_code(Head(codes))
         IN  IF val # None THEN val ELSE apply_keys_first(current, Tail(codes))

\* The for loop of change_direction_system over the keys in iteration order.
RECURSIVE apply_keys(_, _)
apply_keys(current, codes) ==
    IF codes = << >> THEN current
    ELSE LET val == from_key_code(Head(codes))
         IN  apply_keys(IF val # None THEN val ELSE current, Tail(codes))

\* change_direction_system also moving the head one cell at once.
change_direction_system_stepping ==
    /\ CanRun(change_direction)
    /\ \E pressed \in PressedArrows : facing' = apply_keys(facing, pressed)
    /\ position' = [position EXCEPT ![HeadEntity] = new(@.x, @.y - 1)]
    /\ Ran(change_direction)
    /\ UNCHANGED <<window, grid, scoreboard, head, marker, entities, queue,
                   pre_move, last_pressed, pass, status>>

change_direction_system ==
    /\ CanRun(change_direction)
    /\ \E pressed \in PressedArrows : facing' = apply_keys(facing, pressed)
    /\ Ran(change_direction)
    /\ UNCHANGED <<window, grid, scoreboard, head, marker, position, entities,
                   queue, pre_move, last_pressed, pass, status>>

\* change_direction_system again, over every key it distinguishes and
\* keeping the keys it iterated over.
change_direction_observed ==
    /\ CanRun(change_direction)
    /\ \E pressed \in PressedOrders :
          /\ facing' = apply_keys(facing, pressed)
          /\ last_pressed' = pressed
    /\ Ran(change_direction)
    /\ UNCHANGED <<window, grid, scoreboard, head, marker, position, entities,
                   queue, pre_move, pass, status>>

\* step with the head re-entering at the opposite edge of the grid.
step_wrap(head_pos, f) ==
    CASE f = Up -> new(head_pos.x, (head_pos.y - 1) % grid.size.height)
      [] f = Left -> new((head_pos.x - 1) % grid.size.width, head_pos.y)
      [] f = Down -> new(head_pos.x, (head_pos.y + 1) % grid.size.height)
      [] f = Right -> new((head_pos.x + 1) % grid.size.width, head_pos.y)

\* The match on Facing of move_snake_system.
step(head_pos, f) ==
    CASE f = Up -> new(head_pos.x, head_pos.y - 1)
      [] f = Left -> new(head_pos.x - 1, head_pos.y)
      [] f = Down -> new(head_pos.x, head_pos.y + 1)
      [] f = Right -> new(head_pos.x + 1, head_pos.y)

\* The Position components after move_snake_system: the head moved one
\* cell, and the snapshot tail_positions zipped with the chain after its
\* first element (for_each over the pairs, in order).
RECURSIVE zipped(_, _, _)
zipped(positions, tail_positions, segments) ==
    IF tail_positions = << >> \/ segments = << >> THEN positions
    ELSE zipped([positions EXCEPT ![Head(segments)] = Head(tail_positions)],
                Tail(tail_positions), Tail(segments))

\* moved with the snapshot zipped with the whole chain (no skip(1)).
moved_noskip(positions, entity, chain, f) ==
    LET tail_positions == [i \in 1 .. Len(chain) |-> positions[chain[i]]]
        head_moved == [positions EXCEPT ![entity] = step(positions[entity], f)]
    IN  zipped(head_moved, tail_positions, chain)

\* moved with the segments after the first put on the head's new cell.
moved_from_head(positions, entity, chain, f) ==
    LET head_moved == [positions EXCEPT ![entity] = step(positions[entity], f)]
        head_positions == [i \in 1 .. Len(chain) |-> head_moved[entity]]
    IN  zipped(head_moved, head_positions,
               IF chain = << >> THEN << >> ELSE Tail(chain))

\* moved with the first segment following the head (the snapshot preceded
\* by the head's old position, zipped with the whole chain).
moved_leader(positions, entity, chain, f) ==
    LET tail_positions == [i \in 1 .. Len(chain) |-> positions[chain[i]]]
        head_moved == [positions EXCEPT ![entity] = step(positions[entity], f)]
    IN  zipped(head_moved, <<positions[entity]>> \o tail_positions, chain)

moved(positions, entity, chain, f) ==
    LET tail_positions == [i \in 1 .. Len(chain) |-> positions[chain[i]]]
        head_moved == [positions EXCEPT ![entity] = step(positions[entity], f)]
    IN  zipped(head_moved, tail_positions,
               IF chain = << >> THEN << >> ELSE Tail(chain))

move_snake_system ==
    /\ CanRun(move_snake)
    /\ IF \E i \in 1 .. Len(head) : head[i] \notin DOMAIN position
       THEN \* positions.get_mut(*e).unwrap() on an entity without Position
            /\ status' = "unwrap on None"
            /\ UNCHANGED <<position, pre_move>>
       ELSE /\ position' = moved(position, single(HeadMarker), head, facing)
            /\ pre_move' = position
            /\ UNCHANGED status
    /\ Ran(move_snake)
    /\ UNCHANGED <<window, grid, scoreboard, facing, head, marker, entities,
                   queue, last_pressed, pass>>

\* collide_snake_system also ending the session when the head is on the
\* cell of a tail segment.
collide_snake_system_self ==
    /\ CanRun(collide_snake)
    /\ LET pos == position[single(HeadMarker)]
       IN  status' = IF \/ ~in_bounds(pos, grid.size)
                        \/ \E i \in 1 .. Len(head) :
                              /\ head[i] \in DOMAIN position
                              /\ position[head[i]] = pos
                     THEN "DEAD!" ELSE status
    /\ Ran(collide_snake)
    /\ UNCHANGED <<window, grid, scoreboard, facing, head, marker, position,
                   entities, queue, pre_move, last_pressed, pass>>

collide_snake_system ==
    /\ CanRun(collide_snake)
    /\ LET pos == position[single(HeadMarker)]
       IN  status' = IF ~in_bounds(pos, grid.size) THEN "DEAD!" ELSE status
    /\ Ran(collide_snake)
    /\ UNCHANGED <<window, grid, scoreboard, facing, head, marker, position,
                   entities, queue, pre_move, last_pressed, pass>>

\* spawn_tail_segment at the cell the head left in this tick's move.
spawn_tail_segment_behind(pos) ==
    [entity |-> entities, marker |-> TailMarker,
     position |-> IF pre_move # << >> THEN pre_move[HeadEntity] ELSE pos]

\* spawn_tail_segment: reserves the next entity id at once and buffers the
\* insertion of its components; returns the id (field entity).
spawn_tail_segment(pos) ==
    [entity |-> entities, marker |-> TailMarker, position |-> pos]

\* scoreboard.0 = 1
scored_reset(board) == 1

\* scoreboard.0 += 1
scored(board) == board + 1

\* the new segment is not pushed
push_dropped(vec, e) == vec

\* the new segment is put at the front of the chain
push_front(vec, e) == <<e>> \o vec

\* head.0.push(e)
push(vec, e) == Append(vec, e)

eat_fruit_system ==
    /\ CanRun(eat_fruit)
    /\ LET fruit == single(Fruit)
           head_pos == position[single(HeadMarker)]
       IN  IF eq(position[fruit], head_pos)
           THEN /\ scoreboard < MaxScore
                /\ \E p \in random(grid.size) :
                      position' = [position EXCEPT ![fruit] = p]
                /\ scoreboard' = scored(scoreboard)
                /\ LET cmd == spawn_tail_segment(head_pos)
                   IN  /\ head' = push(head, cmd.entity)
                       /\ queue' = Append(queue, cmd)
                /\ entities' = entities + 1
           ELSE UNCHANGED <<position, scoreboard, head, queue, entities>>
    /\ Ran(eat_fruit)
    /\ UNCHANGED <<window, grid, facing, marker, pre_move, last_pressed, pass,
                   status>>

\* Writes Transform only, which is no part of the state.
pos_trans_size_scale_system ==
    /\ CanRun(pos_trans_size_scale)
    /\ Ran(pos_trans_size_scale)
    /\ UNCHANGED <<window, grid, scoreboard, facing, head, marker, position,
                   entities, queue, pre_move, last_pressed, pass, status>>

----------------------------------------------------------------------------
(* The stage. *)

\* The run criteria of a pass: the input timestep, the move timestep, or
\* both fired.
Passes == {InputSet, MoveSet, InputSet \cup MoveSet}

Schedule ==
    /\ status = "running"
    /\ pass = {}
    /\ pass' \in Passes
    /\ done' = {}
    /\ UNCHANGED <<window, grid, scoreboard, facing, head, marker, position,
                   entities, queue, pre_move, last_pressed, status>>

\* A pass in which only the input timestep fired.
ScheduleInput ==
    /\ status = "running"
    /\ pass = {}
    /\ pass' = InputSet
    /\ done' = {}
    /\ UNCHANGED <<window, grid, scoreboard, facing, head, marker, position,
                   entities, queue, pre_move, last_pressed, status>>

\* A component after the buffered spawn commands took effect.
RECURSIVE applied(_, _, _)
applied(components, cmds, field) ==
    IF cmds = << >> THEN components
    ELSE applied((Head(cmds).entity :> Head(cmds)[field]) @@ components,
                 Tail(cmds), field)

\* The end of a pass: every system of the pass has run, the buffers are
\* applied.
ApplyBuffers ==
    /\ status = "running"
    /\ pass # {}
    /\ done = pass
    /\ position' = applied(position, queue, "position")
    /\ marker' = applied(marker, queue, "marker")
    /\ queue' = << >>
    /\ pre_move' = << >>
    /\ pass' = {}
    /\ done' = {}
    /\ UNCHANGED <<window, grid, scoreboard, facing, head, entities,
                   last_pressed, status>>

Next ==
    \/ Schedule
    \/ change_direction_system
    \/ move_snake_system
    \/ collide_snake_system
    \/ eat_fruit_system
    \/ pos_trans_size_scale_system
    \/ ApplyBuffers

Spec == Init /\ [][Next]_vars

\* The input-sampling cadence alone (the passes between two movement
\* ticks), with the pressed keys observed.
NextInput ==
    \/ ScheduleInput
    \/ change_direction_observed
    \/ ApplyBuffers

SpecInput == Init /\ [][NextInput]_vars

\* A pass in which only the move timestep fired.
ScheduleMove ==
    /\ status = "running"
    /\ pass = {}
    /\ pass' = MoveSet
    /\ done' = {}
    /\ UNCHANGED <<window, grid, scoreboard, facing, head, marker, position,
                   entities, queue, pre_move, last_pressed, status>>

\* The movement cadence alone: no key is sampled, so the Facing stays as it
\* is.  The timestep keeps firing and the executor runs every system of a
\* pass, so the program keeps taking steps while it can.
NextStraight ==
    \/ ScheduleMove
    \/ move_snake_system
    \/ collide_snake_system
    \/ eat_fruit_system
    \/ pos_trans_size_scale_system
    \/ ApplyBuffers

SpecStraight == Init /\ [][NextStraight]_vars /\ WF_vars(NextStraight)

----------------------------------------------------------------------------
(* Properties. *)

\* The step in which the given system runs.
Runs(system) == system \notin done /\ done' = done \cup {system}

\* move_snake_system ran and did not panic.
Moves == Runs(move_snake) /\ status' = "running"

\* C1: after a movement tick of a snake with a non-empty tail, the tail
\* segment at chain index 0 holds the position the head had before the move.
C1_SegmentZeroTakesHead ==
    [][(Moves /\ head # << >>)
          => position'[head[1]] = position[HeadEntity]]_vars

C3_HeadStep ==
    [][Moves =>
          LET p == position[HeadEntity]
              q == position'[HeadEntity]
          IN  /\ facing = Up => (q.x = p.x /\ q.y = p.y - 1)
              /\ facing = Down => (q.x = p.x /\ q.y = p.y + 1)
              /\ facing = Left => (q.x = p.x - 1 /\ q.y = p.y)
              /\ facing = Right => (q.x = p.x + 1 /\ q.y = p.y)]_vars

\* The move step has taken the head from a cell of the grid to a coordinate
\* outside the grid.
C3_Witness ==
    /\ status = "running"
    /\ pre_move # << >>
    /\ pre_move[HeadEntity].y = 0
    /\ position[HeadEntity].y = 0 - 1
    /\ position[HeadEntity].x = pre_move[HeadEntity].x

\* The head's position is outside [0,width) x [0,height).
Outside(p) ==
    p.x < 0 \/ p.y < 0 \/ p.x >= grid.size.width \/ p.y >= grid.size.height

\* C4: the collision step ends the session if and only if the head's
\* position is outside the grid, and in_bounds is true of that position
\* exactly when it lies in [0,width) x [0,height).
C4_Collision ==
    [][Runs(collide_snake) =>
          /\ (status' = "DEAD!") <=> Outside(position[HeadEntity])
          /\ status' # "DEAD!" => status' = "running"
          /\ in_bounds(position[HeadEntity], grid.size)
                <=> ~Outside(position[HeadEntity])]_vars

\* The head moved Right from the last column and the session has ended.
C4_Witness ==
    /\ status = "DEAD!"
    /\ pre_move # << >>
    /\ pre_move[HeadEntity].x = grid.size.width - 1
    /\ position[HeadEntity].x = grid.size.width
    /\ position[HeadEntity].y \in 0 .. (grid.size.height - 1)

\* The eat step finds the head on the fruit (a fruit-eaten event).
Ate == Runs(eat_fruit) /\ position[FruitEntity] = position[HeadEntity]

\* The buffers of a pass are applied.
Applies == pass # {} /\ pass' = {}

\* C5 as stated: the segment appended by a fruit-eaten event is placed where
\* the head was before this tick's move.
C5_SegmentAtPreMovePosition ==
    [][Ate =>
          LET cmd == queue'[Len(queue')]
              before == IF pre_move # << >> THEN pre_move[HeadEntity]
                        ELSE position[HeadEntity]
          IN  /\ head' = Append(head, cmd.entity)
              /\ cmd.position = before]_vars

\* C5 as amended: the segment appended by a fruit-eaten event is a new
\* entity at the end of the chain, placed where the head is when the eat
\* step runs (the cell of the fruit it ate), and it gets that position when
\* the buffers are applied.
C5_SegmentAtHeadPosition ==
    [][/\ Ate =>
            LET cmd == queue'[Len(queue')]
            IN  /\ queue' = Append(queue, cmd)
                /\ head' = Append(head, cmd.entity)
                /\ cmd.entity \notin DOMAIN position
                /\ \A i \in 1 .. Len(head) : head[i] # cmd.entity
                /\ cmd.position = position[HeadEntity]
                /\ cmd.position = position[FruitEntity]
       /\ Applies =>
            \A i \in 1 .. Len(queue) :
                position'[queue[i].entity] = queue[i].position]_vars

\* The head moved onto the fruit and ate it in the same tick: the queued
\* segment is the last of the chain, at the head's cell and not at the cell
\* the head came from.
C5_Witness ==
    /\ eat_fruit \in done
    /\ pre_move # << >>
    /\ queue # << >>
    /\ head # << >>
    /\ queue[1].entity = head[Len(head)]
    /\ queue[1].position = position[HeadEntity]
    /\ queue[1].position # pre_move[HeadEntity]

\* C6: the ScoreBoard starts at 0; every fruit-eaten event adds exactly one
\* to the tail length and exactly one to the ScoreBoard in the same step;
\* no step decreases the ScoreBoard.
C6_GrowthLaw ==
    /\ scoreboard = 0
    /\ [][/\ Ate => (Len(head') = Len(head) + 1
                       /\ scoreboard' = scoreboard + 1)
          /\ scoreboard' >= scoreboard]_vars

\* The second fruit has just been eaten.
C6_Witness ==
    /\ eat_fruit \in done
    /\ queue # << >>
    /\ scoreboard = 2
    /\ Len(head) = 2

\* C7: in every pass the systems of the movement tick run in the order
\* move, collide, eat, refresh-transform, and the input-sampling system does
\* not run between two of them.
C7_FixedOrder ==
    [][/\ Runs(collide_snake) => move_snake \in done
       /\ Runs(eat_fruit) => collide_snake \in done
       /\ Runs(pos_trans_size_scale) => eat_fruit \in done
       /\ Runs(change_direction) =>
             (done \cap MoveSet = {} \/ MoveSet \subseteq done)]_vars

\* The keys of a pressed-key sequence that map to a Facing, by position.
Mapped(keys) ==
    {i \in 1 .. Len(keys) :
        keys[i] \in {"Up", "W", "K", "Left", "A", "H",
                     "Down", "S", "J", "Right", "D", "L"}}

\* The Facing a mapped key stands for.
FacingOf(key) ==
    CASE key \in {"Up", "W", "K"} -> Up
      [] key \in {"Down", "S", "J"} -> Down
      [] key \in {"Left", "A", "H"} -> Left
      [] key \in {"Right", "D", "L"} -> Right

\* C8: after an input-sampling tick the Facing is the mapping of the last
\* mapped key in the iteration order of the pressed keys, whatever the
\* Facing was before; if no pressed key is mapped the Facing is unchanged.
C8_LastMappedKeyWins ==
    [][Runs(change_direction) =>
          LET keys == last_pressed'
              mapped == Mapped(keys)
          IN  IF mapped # {}
              THEN facing' = FacingOf(keys[CHOOSE i \in mapped :
                                             \A j \in mapped : j <= i])
              ELSE facing' = facing]_vars

\* Two mapped keys were pressed, the one for Up iterated first and the one
\* for its opposite last: the head faces Down.
C8_Witness ==
    /\ change_direction \in done
    /\ last_pressed = <<"W", "Down">>
    /\ facing = Down

\* C9: the tail sequence is as long as the ScoreBoard value, both change
\* only in a fruit-eaten event, and the sequence never contains the head.
C9_TailLengthIsScore ==
    /\ [](/\ Len(head) = scoreboard
          /\ \A i \in 1 .. Len(head) :
                /\ head[i] # HeadEntity
                /\ head[i] \in DOMAIN marker => marker[head[i]] = TailMarker)
    /\ [][(head' # head \/ scoreboard' # scoreboard) => Ate]_vars

\* Two fruits have been eaten and both segments exist.
C9_Witness ==
    /\ pass = {}
    /\ scoreboard = 2
    /\ Len(head) = 2
    /\ \A i \in 1 .. 2 : head[i] \in DOMAIN position

\* C10: exactly one entity carries the Fruit marker, and its position lies
\* inside the grid: 0 <= x < width and 0 <= y < height.
C10_OneFruitInGrid ==
    /\ Cardinality({e \in DOMAIN marker : marker[e] = Fruit}) = 1
    /\ \A e \in DOMAIN marker :
          marker[e] = Fruit =>
              /\ 0 <= position[e].x /\ position[e].x < grid.size.width
              /\ 0 <= position[e].y /\ position[e].y < grid.size.height

\* The fruit has been eaten and relocated to the cell the head is on.
C10_Witness ==
    /\ eat_fruit \in done
    /\ queue # << >>
    /\ scoreboard >= 1
    /\ position[FruitEntity] = position[HeadEntity]

\* C11: an eat step that finds the head off the fruit changes nothing: the
\* fruit's position, the ScoreBoard, the tail sequence and every segment
\* position (spawned or still buffered) stay as they are.
C11_NoOverlapNoChange ==
    [][(Runs(eat_fruit) /\ position[FruitEntity] # position[HeadEntity])
          => UNCHANGED <<position, scoreboard, head, queue, entities,
                         marker, facing, status>>]_vars

\* The head has moved in this tick, the eat step has run and has found the
\* head off the fruit (in the fruit's column): nothing was eaten.
C11_Witness ==
    /\ status = "running"
    /\ eat_fruit \in done
    /\ pre_move # << >>
    /\ queue = << >>
    /\ position[FruitEntity].x = position[HeadEntity].x
    /\ position[FruitEntity].y # position[HeadEntity].y
    /\ pre_move[FruitEntity] = position[FruitEntity]

\* C12: while the session runs, the head's position is outside the grid
\* only between the move step and the collision step of one tick; at the
\* end of a completed tick it is inside [0,width) x [0,height).
C12_HeadOutsideOnlyTransiently ==
    (status = "running" /\ Outside(position[HeadEntity]))
        => (move_snake \in done /\ collide_snake \notin done)

\* C13: self-collision never ends the session: a collision step that finds
\* the head inside the grid leaves the game running, also with the head on
\* the cell of a tail segment, and the only step into the game-over state is
\* the collision step with the head outside the grid.
C13_NoSelfCollision ==
    [][/\ (Runs(collide_snake) /\ ~Outside(position[HeadEntity]))
            => status' = "running"
       /\ (status' = "DEAD!" /\ status # "DEAD!")
            => (Runs(collide_snake) /\ Outside(position[HeadEntity]))]_vars

\* A whole movement tick has run in which the head moved onto the cell of a
\* tail segment that was there before the move, and the game is running.
C13_Witness ==
    /\ status = "running"
    /\ MoveSet \subseteq done
    /\ pre_move # << >>
    /\ head # << >>
    /\ head[1] \in DOMAIN pre_move
    /\ pre_move[head[1]] # pre_move[HeadEntity]
    /\ position[head[1]] = position[HeadEntity]

\* C14: the tail sequence is append-only: across every step the old
\* sequence is a prefix of the new one, and the sequence changes only in a
\* fruit-eaten event.
C14_AppendOnly ==
    [][/\ Len(head') >= Len(head)
       /\ \A i \in 1 .. Len(head) : head'[i] = head[i]
       /\ head' # head => Ate]_vars

\* The second segment has just been appended behind the first, which has
\* been in the world since an earlier tick.
C14_Witness ==
    /\ eat_fruit \in done
    /\ Len(queue) = 1
    /\ Len(head) = 2
    /\ head[1] \in DOMAIN position
    /\ head[2] = queue[1].entity
    /\ head[1] < head[2]

\* C16: whenever the move step runs, every entity of the tail sequence
\* carries a Position, so its chain lookups do not fail and the process
\* never ends in another way than by leaving the grid.
C16_ChainLookupsResolve ==
    [][/\ Runs(move_snake) =>
             \A i \in 1 .. Len(head) : head[i] \in DOMAIN position
       /\ status' \in {"running", "DEAD!"}]_vars

\* C17: only the input-sampling system writes Facing, and it writes nothing
\* else: no position, not the tail sequence, the fruit or the ScoreBoard.
C17_FacingSoleWriter ==
    [][/\ facing' # facing => Runs(change_direction)
       /\ \A system \in MoveSet : Runs(system) => facing' = facing
       /\ Runs(change_direction) =>
             UNCHANGED <<position, head, scoreboard, queue, entities,
                         marker, status>>]_vars

\* In one pass the input system has turned the head to the Left and the
\* move step has run.
C17_Witness ==
    /\ status = "running"
    /\ change_direction \in done
    /\ move_snake \in done
    /\ pre_move # << >>
    /\ facing = Left

\* C18: every tail segment's position, in the world or still in the command
\* buffer, lies inside the grid.
C18_TailInGrid ==
    /\ \A i \in 1 .. Len(head) :
          head[i] \in DOMAIN position => ~Outside(position[head[i]])
    /\ \A i \in 1 .. Len(queue) : ~Outside(queue[i].position)

\* The head of a snake with two segments has moved out of the grid.
C18_Witness ==
    /\ status = "running"
    /\ pre_move # << >>
    /\ Len(head) = 2
    /\ head[2] \in DOMAIN pre_move
    /\ Outside(position[HeadEntity])
    /\ ~Outside(position[head[2]])

\* C20: the move step writes the head's position and the positions of the
\* segments at chain index 1 and above, and nothing else; the segment at
\* chain index 0 gets its position when the buffers are applied and no step
\* changes it afterwards.
C20_SegmentZeroStays ==
    [][/\ Moves =>
             \A e \in DOMAIN position :
                 (e # HeadEntity /\ \A i \in 2 .. Len(head) : head[i] # e)
                     => position'[e] = position[e]
       /\ (head # << >> /\ head[1] \in DOMAIN position)
             => position'[head[1]] = position[head[1]]
       /\ (Applies /\ head # << >> /\ head[1] \notin DOMAIN position)
             => position'[head[1]] = queue[1].position]_vars

\* The head has moved away from a cell that is not the one of segment 0,
\* and segment 0 is where it was.
C20_Witness ==
    /\ status = "running"
    /\ pre_move # << >>
    /\ head # << >>
    /\ head[1] \in DOMAIN pre_move
    /\ pre_move[HeadEntity] # pre_move[head[1]]
    /\ position[head[1]] = pre_move[head[1]]
    /\ position[HeadEntity] # position[head[1]]

\* The longer side of the grid, in cells.
LongSide ==
    IF grid.size.width > grid.size.height
    THEN grid.size.width ELSE grid.size.height

\* The movement ticks completed so far by a head that has faced Up since
\* the start (one cell up per tick from the centre).
TicksUp == center(grid.size).y - position[HeadEntity].y

\* C19: with the Facing never changed and the movement ticks kept going,
\* the session reaches the out-of-bounds game-over state, and does so
\* within max(width, height) ticks: it is not running any more when that
\* many ticks are over.
C19_StraightRunEnds ==
    /\ <>(status = "DEAD!")
    /\ []((status = "running" /\ pass = {}) => TicksUp < LongSide)

\* No fruit-eaten event of the straight run is held back by the bound on
\* the ScoreBoard.
StraightRunWithinScore ==
    (CanRun(eat_fruit) /\ position[FruitEntity] = position[HeadEntity])
        => scoreboard < MaxScore

=============================================================================
